---------------------------- MODULE Spec2Model ----------------------------
(***************************************************************************)
(* Lead Discovery Agent of LexiHub: the orchestrator handleAgentSearch of  *)
(* components/KnowledgeBase.tsx and the provider plumbing of               *)
(* services/geminiService.ts (retryWithBackoff, extractAgentIntent,        *)
(* searchWithGrounding, structureLeadsStream).                             *)
(*                                                                         *)
(* Every invocation of an async function is a record of `runs`; its pc is  *)
(* the await of the orchestrator (or of searchWithGrounding) it is         *)
(* suspended at.  A step runs from the settling of that await to the next  *)
(* one.  What a provider call does is an input: a script of the outcomes   *)
(* of its invocations, which retryWithBackoff consumes as the code does.   *)
(* A text is a sequence of tokens, a token standing for a piece of the     *)
(* string; the string operations of the code (toLowerCase, includes, trim, *)
(* replace, JSON.parse) are operators on token sequences.                  *)
(*                                                                         *)
(* Spec is the mounted KnowledgeBase component with the keys the page was  *)
(* loaded with; SpecRetry calls retryWithBackoff directly; SpecSearch      *)
(* calls searchWithGrounding directly while the keys are being edited;     *)
(* SpecCalls makes each provider call of the pipeline as its call site     *)
(* does; SpecParse consumes a stream and parses it as the handler does;    *)
(* SpecCsv calls handleExportCsv on a lead list; SpecStats interleaves    *)
(* calls of incrementUserStats; SpecConfig calls the configuration setters *)
(* and loads the page again.                                               *)
(***************************************************************************)
EXTENDS Integers, Sequences, FiniteSets, TLC

VARIABLES
    searchQuery,        \* useState('')                    KnowledgeBase.tsx:19
    agentStatus,        \* useState('idle')                KnowledgeBase.tsx:20
    intentData,         \* useState(null)                  KnowledgeBase.tsx:21
    searchResults,      \* useState([])                    KnowledgeBase.tsx:22
    searchSummary,      \* useState("")                    KnowledgeBase.tsx:23
    generatedLeads,     \* useState([])                    KnowledgeBase.tsx:24
    processingTime,     \* useState(0)                     KnowledgeBase.tsx:25
    processingProgress, \* useState(0), held in fifteenths KnowledgeBase.tsx:26
    errorMessage,       \* useState('')                    KnowledgeBase.tsx:27
    timerRef,           \* useRef(null); 0 stands for null KnowledgeBase.tsx:28
    intervals,          \* the interval timers the browser still runs
    sessionLeads,       \* App state                       unnamed/part_005:75
    sessionQueries,     \* App state                       unnamed/part_005:76
    statsCalls,         \* the incrementUserStats calls made, in call order
    currentProvider,    \* module state                    geminiService.ts:10
    deepSeekApiKey,     \* module state                    geminiService.ts:11
    deepSeekBaseUrl,    \* module state                    geminiService.ts:12
    geminiApiKey,       \* module state                    geminiService.ts:17
    serpApiKey,         \* module state                    geminiService.ts:13
    localStorage,       \* the browser's localStorage, Absent where getItem is null
    runs,               \* the async invocations started so far, in start order
    probe               \* the function called directly, its input and its end

vars == <<searchQuery, agentStatus, intentData, searchResults, searchSummary,
          generatedLeads, processingTime, processingProgress, errorMessage,
          timerRef, intervals, sessionLeads, sessionQueries, statsCalls,
          currentProvider, deepSeekApiKey, deepSeekBaseUrl,
          geminiApiKey, serpApiKey, localStorage, runs, probe>>

\* the provider configuration: the module state and the storage behind it
keyVars == <<currentProvider, deepSeekApiKey, deepSeekBaseUrl,
             geminiApiKey, serpApiKey, localStorage>>

\* what the usage accounting has been told
appVars == <<sessionLeads, sessionQueries, statsCalls>>

compVars == <<agentStatus, intentData, searchResults, searchSummary,
              generatedLeads, processingTime, processingProgress, errorMessage,
              timerRef, intervals, sessionLeads, sessionQueries, statsCalls>>

(***************************************************************************)
(* Bounds of the model.                                                    *)
(***************************************************************************)
MaxRuns == 2        \* handleAgentSearch invocations explored
MaxChunks == 2      \* chunks one stream yields
MaxElapsed == 1     \* seconds the elapsed-time timer is seen to report

(***************************************************************************)
(* Strings.  A token is a piece of text; TokLower is toLowerCase on it and *)
(* TokHas the needles of the code's includes() calls that occur in it.     *)
(***************************************************************************)
TokLower(t) ==
    CASE t = "429 Too Many Requests" -> "429 too many requests"
      [] t = "Quota Exceeded for this project" -> "quota exceeded for this project"
      [] t = "503 The model is overloaded" -> "503 the model is overloaded"
      [] t = "403 API key not valid" -> "403 api key not valid"
      [] OTHER -> t

TokHas(t) ==
    CASE t = "429 Too Many Requests" -> {"429"}
      [] t = "429 too many requests" -> {"429"}
      [] t = "Quota Exceeded for this project" -> {"Quota"}
      [] t = "quota exceeded for this project" -> {"quota exceeded"}
      [] t = "503 The model is overloaded" -> {"503", "overloaded"}
      [] t = "503 the model is overloaded" -> {"503", "overloaded"}
      [] t = "API Quota Exceeded. Using Key ending in " -> {"Quota"}
      [] OTHER -> {}

ToLowerCase(msg) == [i \in DOMAIN msg |-> TokLower(msg[i])]

Includes(msg, needle) == \E i \in DOMAIN msg : needle \in TokHas(msg[i])

\* x || y on strings: the empty string is falsy
OrElse(x, y) == IF x # <<>> THEN x ELSE y

(***************************************************************************)
(* Errors a provider call rejects with: an Error-like object, with its     *)
(* message and what JSON.stringify gives for it.                           *)
(***************************************************************************)
Err(m) == [message |-> m, json |-> <<"{}">>]

Err429 == Err(<<"429 Too Many Requests">>)
ErrQuota == Err(<<"Quota Exceeded for this project">>)
Err503 == Err(<<"503 The model is overloaded">>)
Err403 == Err(<<"403 API key not valid">>)
ErrBlank == Err(<<>>)

\* the errors the providers of the pipeline are seen to fail with
ProviderErrors == {Err429, Err403}

\* the errors a directly called retryWithBackoff is probed with
ProbeErrors == {Err429, ErrQuota, Err503, Err403, ErrBlank}

NoErr == Err(<<"none">>)

(***************************************************************************)
(* retryWithBackoff(fn, retries = 5, delay = 3000)   geminiService.ts:75   *)
(*                                                                         *)
(* What fn does is a script: its first `fails` invocations reject with     *)
(* `transient`, the next one settles as `final`.                           *)
(***************************************************************************)
DefaultRetries == 5
DefaultDelay == 3000
GroundedRetries == 3
GroundedDelay == 2000
FallbackRetries == 2
FallbackDelay == 2000

Resolved(v) == [ok |-> TRUE, value |-> v, error |-> NoErr]
Rejected(e) == [ok |-> FALSE, value |-> <<>>, error |-> e]

\* the outcome of the i-th invocation of fn
FnOutcome(script, i) ==
    IF i <= script.fails THEN Rejected(script.transient) ELSE script.final

\* line 79
RetryMsg(error) == ToLowerCase(OrElse(error.message, error.json))

\* line 80
IsRateLimit(msg) ==
    Includes(msg, "429") \/ Includes(msg, "resource exhausted")
        \/ Includes(msg, "quota exceeded")

\* line 81
IsServerOverload(msg) == Includes(msg, "503") \/ Includes(msg, "overloaded")

ShouldRetryOnceMore(error, retries) ==
    (IsRateLimit(RetryMsg(error)) \/ IsServerOverload(RetryMsg(error)))
        /\ retries >= 0

ShouldRetryAnyError(error, retries) == retries > 0

\* line 83
ShouldRetry(error, retries) ==
    (IsRateLimit(RetryMsg(error)) \/ IsServerOverload(RetryMsg(error)))
        /\ retries > 0

NextDelayLinear(delay) == delay + 2000

\* line 87: delay * 2
NextDelay(delay) == delay * 2

\* line 75-91, from the i-th invocation of fn on: how the call ends (ok with
\* value, or error thrown), the invocations of fn it made and the waits it
\* performed, in order
RECURSIVE retryWithBackoff(_, _, _, _)
retryWithBackoff(script, i, retries, delay) ==
    LET out == FnOutcome(script, i)
    IN  IF out.ok
        THEN [ok |-> TRUE, value |-> out.value, error |-> NoErr,
              calls |-> 1, waits |-> <<>>]
        ELSE IF ShouldRetry(out.error, retries)
        THEN LET rest == retryWithBackoff(script, i + 1, retries - 1, NextDelay(delay))
             IN  [rest EXCEPT !.calls = @ + 1, !.waits = <<delay>> \o @]
        ELSE [ok |-> FALSE, value |-> <<>>, error |-> out.error,
              calls |-> 1, waits |-> <<>>]

MaxFails == 6   \* failures in a row scripted for a direct call

\* the scripts of a call whose fn resolves with one of values and fails with
\* one of errors, after one of the numbers of failures in fails
Scripts(values, errors, fails) ==
    [fails : fails, transient : errors,
     final : {Resolved(v) : v \in values} \cup {Rejected(e) : e \in errors}]

\* a provider call of the pipeline: no failure, one failure, or as many as
\* use up a budget of retries
PipelineScripts(values, retries) ==
    Scripts(values, ProviderErrors, {0, 1, retries + 1})

(***************************************************************************)
(* Keys                                               geminiService.ts:13  *)
(***************************************************************************)
UserGeminiKey == "AIzaSyD-user-key-9f3K"
ShortGeminiKey == "abc"
UserSerpKey == "serp-key-1"

\* process.env.API_KEY of the build (vite.config.ts:13): none configured
EnvApiKey == ""

\* what localStorage.getItem gives for a key that is not stored
Absent == "<null>"

\* x || y on a stored string: null and the empty string are falsy
StoredOr(x, y) == IF x # Absent /\ x # "" THEN x ELSE y

\* key.trim() of the texts typed into the key inputs
TrimKey(k) == IF k = " " THEN "" ELSE k

\* geminiApiKey.length
KeyLength(k) ==
    CASE k = "" -> 0 [] k = UserGeminiKey -> 21 [] k = ShortGeminiKey -> 3 [] OTHER -> 1

\* geminiService.ts:28-32
getMaskedGeminiKey ==
    IF geminiApiKey = "" THEN "No Key"
    ELSE IF KeyLength(geminiApiKey) < 8 THEN "****"
    ELSE IF geminiApiKey = UserGeminiKey THEN "...9f3K"
    ELSE "..."

\* geminiService.ts:20-25: the message getGeminiClient throws with no key
MissingKeyError ==
    Err(<<"Gemini API Key is missing. Please set it in Settings or configure APP_KEY/API_KEY in Vercel.">>)

GeminiClientThrows == geminiApiKey = ""

(***************************************************************************)
(* JSON texts.  The tokens of a streamed text; whitespace tokens separate  *)
(* the others.                                                             *)
(***************************************************************************)
LeadA == "{lawFirm:A,contact:B,phone:-,address:-,sourceUrl:-}"
LeadB == "{lawFirm:C,contact:D,phone:1,address:-,sourceUrl:-}"

\* a lead whose address holds three backticks, and what is left of it when
\* they are removed
LeadFenced == "{lawFirm:E,contact:F,phone:-,address:<fence>G,sourceUrl:-}"
LeadStripped == "{lawFirm:E,contact:F,phone:-,address:G,sourceUrl:-}"

\* Fence stands for the three backticks of a markdown fence, StringToken for
\* a JSON string literal of two characters
Fence == "<fence>"
StringToken == "<string ab>"
WhiteTokens == {"\n", " "}
ObjectTokens == {LeadA, LeadB, LeadFenced, LeadStripped}
ScalarTokens == ObjectTokens \cup {"null", "7", StringToken}

\* the number of characters of a token
TokLen(t) ==
    CASE t = LeadFenced -> 78
      [] t \in ObjectTokens -> 75
      [] t = Fence -> 3
      [] t \in {"json", "null", StringToken} -> 4
      [] OTHER -> 1

RECURSIVE StrLen(_)
StrLen(text) == IF text = <<>> THEN 0 ELSE TokLen(Head(text)) + StrLen(Tail(text))

SyntaxError == Err(<<"Unexpected token in JSON">>)
NullTypeError == Err(<<"Cannot read properties of null">>)

\* A parsed JSON value: an array with its elements, or a scalar.
JsArray(items) == [kind |-> "array", items |-> items]
JsNull == [kind |-> "null", items |-> <<>>]
JsScalar(t) ==
    IF t = "null" THEN JsNull
    ELSE [kind |-> CASE t = "7" -> "number" [] t = StringToken -> "string"
                     [] OTHER -> "object",
          items |-> <<t>>]

RECURSIVE DropWhite(_)
DropWhite(s) ==
    IF s = <<>> THEN <<>>
    ELSE IF Head(s) \in WhiteTokens THEN DropWhite(Tail(s))
    ELSE <<Head(s)>> \o DropWhite(Tail(s))

RECURSIVE IsJsonValue(_), IsJsonElements(_)
IsJsonValue(s) ==
    \/ Len(s) = 1 /\ s[1] \in ScalarTokens
    \/ /\ Len(s) >= 2
       /\ s[1] = "["
       /\ s[Len(s)] = "]"
       /\ (Len(s) = 2 \/ IsJsonElements(SubSeq(s, 2, Len(s) - 1)))

IsJsonElements(s) ==
    \E k \in 1..Len(s) :
        /\ IsJsonValue(SubSeq(s, 1, k))
        /\ \/ k = Len(s)
           \/ /\ k + 2 <= Len(s)
              /\ s[k + 1] = ","
              /\ IsJsonElements(SubSeq(s, k + 2, Len(s)))

\* the elements of a JSON array body, a nested array shown as "[..]"
RECURSIVE JsonElements(_)
JsonElements(s) ==
    IF s = <<>> THEN <<>>
    ELSE LET k == CHOOSE k \in 1..Len(s) :
                    /\ IsJsonValue(SubSeq(s, 1, k))
                    /\ \/ k = Len(s)
                       \/ /\ k + 2 <= Len(s)
                          /\ s[k + 1] = ","
                          /\ IsJsonElements(SubSeq(s, k + 2, Len(s)))
             this == IF k = 1 THEN s[1] ELSE "[..]"
         IN  IF k = Len(s) THEN <<this>>
             ELSE <<this>> \o JsonElements(SubSeq(s, k + 2, Len(s)))

\* JSON.parse(text): [ok |-> FALSE] stands for the SyntaxError thrown
JsonParse(text) ==
    LET s == DropWhite(text)
    IN  IF ~IsJsonValue(s) THEN [ok |-> FALSE, val |-> JsNull]
        ELSE IF Len(s) = 1 THEN [ok |-> TRUE, val |-> JsScalar(s[1])]
        ELSE [ok |-> TRUE, val |-> JsArray(JsonElements(SubSeq(s, 2, Len(s) - 1)))]

\* value.length: -1 stands for undefined (a number, an object); null throws
LengthOf(v) ==
    CASE v.kind = "array" -> Len(v.items)
      [] v.kind = "string" -> 2
      [] OTHER -> -1

\* the replace of line 119 inside a token
TokStrip(t) == IF t = LeadFenced THEN LeadStripped ELSE t

\* text.replace(/FENCEjson\n?|\n?FENCE/g, '')       KnowledgeBase.tsx:119
RECURSIVE StripFences(_)
StripFences(s) ==
    IF s = <<>> THEN <<>>
    ELSE IF Len(s) >= 2 /\ s[1] = Fence /\ s[2] = "json"
         THEN IF Len(s) >= 3 /\ s[3] = "\n"
              THEN StripFences(SubSeq(s, 4, Len(s)))
              ELSE StripFences(SubSeq(s, 3, Len(s)))
    ELSE IF Len(s) >= 2 /\ s[1] = "\n" /\ s[2] = Fence
         THEN StripFences(SubSeq(s, 3, Len(s)))
    ELSE IF s[1] = Fence THEN StripFences(Tail(s))
    ELSE <<TokStrip(Head(s))>> \o StripFences(Tail(s))

\* text.trim()
RECURSIVE TrimStart(_), TrimEnd(_)
TrimStart(s) ==
    IF s # <<>> /\ Head(s) \in WhiteTokens THEN TrimStart(Tail(s)) ELSE s
TrimEnd(s) ==
    IF s # <<>> /\ s[Len(s)] \in WhiteTokens
    THEN TrimEnd(SubSeq(s, 1, Len(s) - 1)) ELSE s
Trim(s) == TrimEnd(TrimStart(s))

\* text.match(/\[[\s\S]*\]/): from the first "[" to the last "]" after it;
\* <<>> stands for no match (a match is never empty)
RegexArray(s) ==
    LET opens == {i \in DOMAIN s : s[i] = "["}
        first == CHOOSE i \in opens : \A j \in opens : i <= j
        closes == {i \in DOMAIN s : s[i] = "]" /\ i > first}
        last == CHOOSE i \in closes : \A j \in closes : j <= i
    IN  IF opens = {} THEN <<>>
        ELSE IF closes = {} THEN <<>>
        ELSE SubSeq(s, first, last)


(***************************************************************************)
(* What the providers answer.                                              *)
(***************************************************************************)
\* response.text of the intent call                geminiService.ts:501-507
IntentJsonA == "{event:Divorce,location:Beijing,contactPerson:-,phone:-}"
IntentCut == "{event:Divorce,loc"
IntentTexts == {<<>>, <<"null">>, <<IntentJsonA>>, <<IntentCut>>}

NullIntent ==
    [kind |-> "null", event |-> "", location |-> "", contactPerson |-> "", phone |-> ""]

\* JSON.parse(response.text) of the intent call
ParseIntent(text) ==
    CASE text = <<IntentJsonA>> ->
            [ok |-> TRUE,
             val |-> [kind |-> "object", event |-> "Divorce", location |-> "Beijing",
                      contactPerson |-> "-", phone |-> "-"]]
      [] text = <<"null">> -> [ok |-> TRUE, val |-> NullIntent]
      [] OTHER -> [ok |-> FALSE, val |-> NullIntent]

\* what the SerpApi proxies answer                  geminiService.ts:116-146
SerpDataFull == "{organic_results:[r1,r2]}"
SerpDataBare == "{search_metadata:{}}"
SerpDatas == {SerpDataFull, SerpDataBare, "null"}

\* data.organic_results mapped to links             geminiService.ts:524-526
SerpLinks(data) ==
    IF data = SerpDataFull
    THEN <<[title |-> "Firm One", url |-> "https://one.example"],
           [title |-> "Firm Two", url |-> "https://two.example"]>>
    ELSE <<>>

SerpCorsErrors ==
    { Err(<<"SerpApi Error (401): Invalid API key">>),
      Err(<<"Network Error: Could not connect to SerpApi. Likely CORS.">>),
      Err(<<"SerpApi Error (", "429 Too Many Requests", ")">>) }

\* the answer of the grounded call: its text and its grounding chunks
GroundedText == <<"Firm One, 555-0100, 1 Main St">>
GroundedResponses ==
    { [text |-> <<>>, chunks |-> <<>>],
      [text |-> GroundedText, chunks |-> <<>>],
      [text |-> GroundedText,
       chunks |-> <<[uri |-> "https://one.example", title |-> "Firm One"],
                    [uri |-> "https://two.example", title |-> ""],
                    [uri |-> "", title |-> "No web"]>>] }

\* geminiService.ts:550-554
RECURSIVE GroundingLinks(_)
GroundingLinks(chunks) ==
    IF chunks = <<>> THEN <<>>
    ELSE (IF Head(chunks).uri # ""
          THEN <<[title |-> IF Head(chunks).title # "" THEN Head(chunks).title
                            ELSE "Source",
                  url |-> Head(chunks).uri]>>
          ELSE <<>>) \o GroundingLinks(Tail(chunks))

\* fallbackResponse.text
FallbackTexts == {<<>>, <<"Note: Live search is unavailable, these are general suggestions.">>}

WarningBanner == "[SYSTEM WARNING: Search Quota Exceeded. Showing AI Knowledge instead.]\n\n"

\* chunk.text of one streamed chunk
ChunkTexts == {<<>>, <<"[", LeadA>>, <<"]">>}

\* the values of the query input
Queries == {<<" ", " ">>, <<"Divorce lawyer in Beijing">>}

(***************************************************************************)
(* The payload of searchWithGrounding               geminiService.ts:517   *)
(***************************************************************************)
Payload(text, links) ==
    [text |-> text, links |-> links, error |-> FALSE, errorMessage |-> <<>>]

ErrorPayload(msg) ==
    [text |-> <<>>, links |-> <<>>, error |-> TRUE, errorMessage |-> msg]

NoPayload == Payload(<<>>, <<>>)

\* line 527
SerpPayload(data) == Payload(<<"SerpApi Results: ", data>>, SerpLinks(data))

\* line 529
SerpErrorPayload(e) == ErrorPayload(<<"SerpApi Error: ">> \o e.message)

\* line 556
GroundedPayload(resp) == Payload(resp.text, GroundingLinks(resp.chunks))

FallbackPayloadBare(text) ==
    Payload(OrElse(text, <<"No suggestions available.">>), <<>>)

\* line 572-575
FallbackPayload(text) ==
    Payload(<<WarningBanner>> \o OrElse(text, <<"No suggestions available.">>), <<>>)

\* line 579-584
FallbackErrorPayload(e) ==
    ErrorPayload(<<"Both Search and Fallback failed. Key: ", getMaskedGeminiKey,
                   ". Error: ">> \o e.message)

\* geminiService.ts:512
IntentError(e) == Err(<<"Intent Error: ">> \o OrElse(e.message, <<"API Failure">>))

\* geminiService.ts:623
StructuringError(e) == Err(<<"Structuring Error: ">> \o e.message)

EmptyIntentResponse == Err(<<"Empty intent response">>)
NoTextFromSearch == Err(<<"No text returned from Gemini Search.">>)

(***************************************************************************)
(* The stage functions of services/geminiService.ts, from the scripts of   *)
(* the provider calls they make to how they settle.                        *)
(***************************************************************************)
\* a best-effort intent in place of a failure
extractAgentIntentStandIn(script) ==
    LET res == retryWithBackoff(script, 1, DefaultRetries, DefaultDelay)
    IN  IF ~GeminiClientThrows /\ res.ok /\ res.value # <<>> /\ ParseIntent(res.value).ok
        THEN Resolved(ParseIntent(res.value).val)
        ELSE Resolved([kind |-> "object", event |-> "query", location |-> "Unknown",
                       contactPerson |-> "-", phone |-> "-"])

\* geminiService.ts:490-514
extractAgentIntent(script) ==
    LET res == retryWithBackoff(script, 1, DefaultRetries, DefaultDelay)
    IN  IF GeminiClientThrows THEN Rejected(IntentError(MissingKeyError))
        ELSE IF ~res.ok THEN Rejected(IntentError(res.error))
        ELSE IF res.value = <<>> THEN Rejected(IntentError(EmptyIntentResponse))
        ELSE IF ~ParseIntent(res.value).ok THEN Rejected(IntentError(SyntaxError))
        ELSE Resolved(ParseIntent(res.value).val)

\* geminiService.ts:101-147: the local proxy answers with data or fails, then
\* the public CORS proxy answers with data or an error
callSerpApi(proxy, cors) ==
    IF proxy \in SerpDatas THEN Resolved(proxy) ELSE cors

\* geminiService.ts:519-531: data.organic_results of null throws in the try
SerpStrategy(proxy, cors) ==
    LET data == callSerpApi(proxy, cors)
    IN  IF ~data.ok THEN SerpErrorPayload(data.error)
        ELSE IF data.value = "null" THEN SerpErrorPayload(NullTypeError)
        ELSE SerpPayload(data.value)

SearchEntryGeminiFirst ==
    IF ~GeminiClientThrows THEN "gemini"
    ELSE IF serpApiKey # "" THEN "serp"
    ELSE "throws"

\* geminiService.ts:519, 534: the strategy a call takes on entry
SearchEntry ==
    IF serpApiKey # "" THEN "serp"
    ELSE IF GeminiClientThrows THEN "throws"
    ELSE "gemini"

\* a provider call a search makes: "serpapi" (line 521), "grounded" (line 539)
\* or "fallback" (line 564), and whether it is pending, failed or ok
CallTo(name, state) == [to |-> name, state |-> state]

\* geminiService.ts:521, 539: the provider call a search awaits first
EntryCalls(entry) ==
    CASE entry = "serp" -> <<CallTo("serpapi", "pending")>>
      [] entry = "gemini" -> <<CallTo("grounded", "pending")>>
      [] OTHER -> <<>>

\* geminiService.ts:558-564: the grounded call has failed, the ungrounded one
\* is awaited
FallbackCalls == <<CallTo("grounded", "failed"), CallTo("fallback", "pending")>>

GroundedAttemptAnyText(script) ==
    LET res == retryWithBackoff(script, 1, GroundedRetries, GroundedDelay)
    IN  IF ~res.ok THEN Rejected(res.error)
        ELSE Resolved(GroundedPayload(res.value))

\* geminiService.ts:539-556: the grounded attempt; ok = FALSE falls to line 558
GroundedAttempt(script) ==
    LET res == retryWithBackoff(script, 1, GroundedRetries, GroundedDelay)
    IN  IF ~res.ok THEN Rejected(res.error)
        ELSE IF res.value.text = <<>> THEN Rejected(NoTextFromSearch)
        ELSE Resolved(GroundedPayload(res.value))

\* geminiService.ts:563-585
FallbackAttempt(script) ==
    LET res == retryWithBackoff(script, 1, FallbackRetries, FallbackDelay)
    IN  IF res.ok THEN FallbackPayload(res.value) ELSE FallbackErrorPayload(res.error)

\* geminiService.ts:591
SkipStructuring(rawText) ==
    rawText = <<>> \/ Head(rawText) = "Configuration Error"

\* geminiService.ts:609-616: the start of the stream
StreamInit(script) ==
    LET res == retryWithBackoff(script, 1, DefaultRetries, DefaultDelay)
    IN  IF GeminiClientThrows THEN Rejected(StructuringError(MissingKeyError))
        ELSE IF ~res.ok THEN Rejected(StructuringError(res.error))
        ELSE Resolved(res.value)

(***************************************************************************)
(* An async invocation: caller "handler" is a handleAgentSearch run,       *)
(* caller "search" a direct call of searchWithGrounding.  pc is the await  *)
(* it is suspended at; the other fields are its locals and what it has     *)
(* done so far.                                                            *)
(***************************************************************************)
NewRun(caller, pc) ==
    [caller |-> caller, pc |-> pc, strategy |-> "none",
     intent |-> NullIntent,         \* const intent            line 82
     payload |-> NoPayload,         \* const searchRes         line 91
     acc |-> <<>>,                  \* let accumulatedText     line 108
     nchunks |-> 0,                 \* chunks the stream has yielded
     chunks |-> <<>>,               \* those chunks, in arrival order
     intentOk |-> FALSE,            \* extractAgentIntent resolved
     searchCalled |-> FALSE,        \* searchWithGrounding was called
     searchCalls |-> <<>>,          \* the provider calls of the pending search
     searchOutcome |-> "none",      \* "ok", "error" (payload), "threw"
     structCalled |-> FALSE,        \* structureLeadsStream was called
     pauses |-> <<>>,               \* the pauses it has waited out, in ms
     outcome |-> "pending"]         \* how it ended: "complete", "error" (in
                                    \* the catch), "search_error" (line 99);
                                    \* a direct call "returned" or "threw"

\* a settled handler run keeps its outcome only: nothing else of it is read
\* again; a direct call keeps what it got
Finished(run, outcome) ==
    IF run.caller = "handler"
    THEN [NewRun("handler", "done") EXCEPT !.outcome = outcome]
    ELSE [run EXCEPT !.pc = "done", !.outcome = outcome]

InFlight == {r \in DOMAIN runs : runs[r].caller = "handler" /\ runs[r].pc # "done"}

EmptyLeads == JsArray(<<>>)

(***************************************************************************)
(* handleAgentSearch                             KnowledgeBase.tsx:63-153  *)
(***************************************************************************)
ProgressDivisor == 15
ProgressCap == 98
ProgressDone == 100
ThrottleMs == 1500

waitNone(ms) == 0

\* line 61: how long the promise of wait(ms) takes to resolve
wait(ms) == ms

\* window.setInterval returns a fresh id
NewTimerId == Len(runs) + 1

\* if (timerRef.current) clearInterval(timerRef.current)
ClearedIntervals == IF timerRef # 0 THEN intervals \ {timerRef} ELSE intervals

FreshRunStateKeepingLeads ==
    [intentData |-> NullIntent, searchResults |-> <<>>, searchSummary |-> <<>>,
     generatedLeads |-> generatedLeads, processingTime |-> 0,
     processingProgress |-> 0, errorMessage |-> <<>>]

\* lines 67-73
FreshRunState ==
    [intentData |-> NullIntent, searchResults |-> <<>>, searchSummary |-> <<>>,
     generatedLeads |-> EmptyLeads, processingTime |-> 0,
     processingProgress |-> 0, errorMessage |-> <<>>]

\* lines 63-82, up to the first await
handleAgentSearch ==
    IF Trim(searchQuery) = <<>> THEN UNCHANGED vars
    ELSE /\ Len(runs) < MaxRuns
         /\ agentStatus' = "identifying"
         /\ intentData' = FreshRunState.intentData
         /\ searchResults' = FreshRunState.searchResults
         /\ searchSummary' = FreshRunState.searchSummary
         /\ generatedLeads' = FreshRunState.generatedLeads
         /\ processingTime' = FreshRunState.processingTime
         /\ processingProgress' = FreshRunState.processingProgress
         /\ errorMessage' = FreshRunState.errorMessage
         /\ timerRef' = NewTimerId
         /\ intervals' = intervals \cup {NewTimerId}
         /\ runs' = Append(runs, NewRun("handler", "intent"))
         /\ UNCHANGED <<searchQuery, appVars, keyVars, probe>>

\* line 175: disabled unless idle, complete or error
FindLeadsEnabled == agentStatus \in {"idle", "complete", "error"}

\* line 174
ClickFindLeads == FindLeadsEnabled /\ handleAgentSearch

\* line 169: onKeyDown of the query input
PressEnter == handleAgentSearch

\* lines 258-272: the Retry button of the error panel
ClickRetry == agentStatus = "error" /\ handleAgentSearch

\* line 168: onChange of the query input
SetSearchQuery(q) ==
    /\ searchQuery # q
    /\ searchQuery' = q
    /\ UNCHANGED <<compVars, keyVars, runs, probe>>

\* lines 76-78: the callback of a running interval
TimerTick(id, elapsed) ==
    /\ id \in intervals
    /\ processingTime # elapsed
    /\ processingTime' = elapsed
    /\ UNCHANGED <<searchQuery, agentStatus, intentData, searchResults,
                   searchSummary, generatedLeads, processingProgress,
                   errorMessage, timerRef, intervals, appVars, keyVars, runs, probe>>

CatchStatusKept == agentStatus

\* line 142
CatchStatus == "error"

\* line 145
IsQuotaMessage(rawMsg) ==
    Includes(rawMsg, "429") \/ Includes(rawMsg, "Resource exhausted")
        \/ Includes(rawMsg, "Quota exceeded")

\* lines 143-149
CatchMessage(e) ==
    IF IsQuotaMessage(e.message)
    THEN <<"API Quota Exceeded. Using Key ending in ", getMaskedGeminiKey,
           ". The search tool is heavily rate-limited even on paid tiers. Please try again in 1 minute.">>
    ELSE OrElse(e.message, <<"An unexpected error occurred during the workflow.">>)

\* line 267: the tip under the message of the error panel
ErrorTip(message) ==
    IF Includes(message, "Quota")
    THEN "Tip: Google Search has strict rate limits. Try again in 30-60 seconds."
    ELSE "Tip: Check your API Key in Settings."

\* lines 140-152: catch and finally of run r
HandlerCatch(r, e) ==
    /\ agentStatus' = CatchStatus
    /\ errorMessage' = CatchMessage(e)
    /\ intervals' = ClearedIntervals
    /\ UNCHANGED <<searchQuery, intentData, searchResults, searchSummary,
                   generatedLeads, processingTime, processingProgress,
                   timerRef, appVars, keyVars, probe>>

\* line 82-86: extractAgentIntent settles
IntentSettles(r, script) ==
    /\ runs[r].caller = "handler"
    /\ runs[r].pc = "intent"
    /\ LET res == extractAgentIntent(script)
       IN  IF res.ok
           THEN /\ intentData' = res.value
                /\ runs' = [runs EXCEPT ![r].pc = "wait1", ![r].intent = res.value,
                                        ![r].intentOk = TRUE]
                /\ UNCHANGED <<searchQuery, agentStatus, searchResults, searchSummary,
                               generatedLeads, processingTime, processingProgress,
                               errorMessage, timerRef, intervals, appVars, keyVars,
                               probe>>
           ELSE /\ HandlerCatch(r, res.error)
                /\ runs' = [runs EXCEPT ![r] = Finished(@, "error")]

\* lines 86-91: the first pause is over; the phrase is built from intent, which
\* throws on a null intent, and searchWithGrounding is called
Wait1Elapsed(r) ==
    /\ runs[r].pc = "wait1"
    /\ IF runs[r].intent.kind = "null"
       THEN /\ HandlerCatch(r, NullTypeError)
            /\ runs' = [runs EXCEPT ![r] = Finished(@, "error")]
       ELSE /\ agentStatus' = "searching"
            /\ runs' = [runs EXCEPT ![r].pc = IF SearchEntry = "serp" THEN "serp"
                                              ELSE "gemini",
                                    ![r].strategy = SearchEntry,
                                    ![r].intent = NullIntent,
                                    ![r].searchCalled = TRUE,
                                    ![r].searchCalls = EntryCalls(SearchEntry),
                                    ![r].pauses = Append(@, wait(ThrottleMs))]
            /\ UNCHANGED <<searchQuery, intentData, searchResults, searchSummary,
                           generatedLeads, processingTime, processingProgress,
                           errorMessage, timerRef, intervals, appVars, keyVars, probe>>

SearchResErrorIgnored(payload) == FALSE

\* line 95: if (searchRes.error)
SearchResError(payload) == payload.error

\* lines 91-103: searchWithGrounding of run r has settled; a direct call just
\* keeps what it got
SearchSettled(r, settled) ==
    IF runs[r].caller # "handler"
    THEN /\ runs' = [runs EXCEPT ![r] =
                        Finished([@ EXCEPT !.payload = settled.value,
                                           !.searchOutcome =
                                               IF ~settled.ok THEN "threw"
                                               ELSE IF settled.value.error THEN "error"
                                               ELSE "ok"],
                                 IF settled.ok THEN "returned" ELSE "threw")]
         /\ UNCHANGED <<searchQuery, compVars, keyVars, probe>>
    ELSE IF ~settled.ok
    THEN /\ HandlerCatch(r, settled.error)
         /\ runs' = [runs EXCEPT ![r] =
                        Finished([@ EXCEPT !.searchOutcome = "threw"], "error")]
    ELSE /\ searchResults' = settled.value.links
         /\ searchSummary' = settled.value.text
         /\ IF SearchResError(settled.value)
            THEN /\ agentStatus' = "error"
                 /\ errorMessage' = OrElse(settled.value.errorMessage,
                                           <<"Search Tool Failed.">>)
                 /\ intervals' = ClearedIntervals
                 /\ runs' = [runs EXCEPT ![r] =
                                Finished([@ EXCEPT !.searchOutcome = "error"],
                                         "search_error")]
            ELSE /\ runs' = [runs EXCEPT ![r].pc = "wait2",
                                         ![r].payload = settled.value,
                                         ![r].searchCalls = <<>>,
                                         ![r].searchOutcome =
                                             IF settled.value.error THEN "error" ELSE "ok"]
                 /\ UNCHANGED <<agentStatus, errorMessage, intervals>>
         /\ UNCHANGED <<searchQuery, intentData, generatedLeads, processingTime,
                        processingProgress, timerRef, appVars, keyVars, probe>>

\* geminiService.ts:519-531: the SerpApi strategy settles
SerpSettles(r, proxy, cors) ==
    /\ runs[r].pc = "serp"
    /\ SearchSettled(r, Resolved(SerpStrategy(proxy, cors)))

\* geminiService.ts:534-556: getGeminiClient threw on entry, or the grounded
\* attempt settles
GroundedSettles(r, script) ==
    /\ runs[r].pc = "gemini"
    /\ IF runs[r].strategy = "throws"
       THEN SearchSettled(r, [Rejected(MissingKeyError) EXCEPT !.value = NoPayload])
       ELSE IF GroundedAttempt(script).ok
       THEN SearchSettled(r, GroundedAttempt(script))
       ELSE /\ runs' = [runs EXCEPT ![r].pc = "fallback",
                                    ![r].searchCalls = FallbackCalls]
            /\ UNCHANGED <<searchQuery, compVars, keyVars, probe>>

\* geminiService.ts:558-585: the ungrounded attempt settles
FallbackSettles(r, script) ==
    /\ runs[r].pc = "fallback"
    /\ SearchSettled(r, Resolved(FallbackAttempt(script)))

(***************************************************************************)
(* Structuring                  KnowledgeBase.tsx:103-138, geminiService   *)
(***************************************************************************)
Min(a, b) == IF a < b THEN a ELSE b

\* line 114, in fifteenths: Math.min(prev + chunk.length / 15, 98)
ProgressAfter(prev, chunk) ==
    Min(prev + StrLen(chunk), ProgressCap * ProgressDivisor)

\* lines 121-123, 129-131: JSON.parse(text), setGeneratedLeads(leads) and
\* leads.length, which throws on null after the list was set
ParseStep(text, prev) ==
    LET p == JsonParse(text)
    IN  IF ~p.ok THEN [threw |-> TRUE, leads |-> prev, count |-> 0]
        ELSE IF p.val.kind = "null" THEN [threw |-> TRUE, leads |-> p.val, count |-> 0]
        ELSE [threw |-> FALSE, leads |-> p.val,
              count |-> IF LengthOf(p.val) > 0 THEN LengthOf(p.val) ELSE 0]

\* lines 118-135: the lead list after parsing acc and the count handed to
\* onLeadsGenerated (0: not called)
ParseLeads(acc, prev) ==
    LET cleanJson == Trim(StripFences(acc))
        first == IF cleanJson = <<>> THEN [threw |-> FALSE, leads |-> prev, count |-> 0]
                 ELSE ParseStep(cleanJson, prev)
        match == RegexArray(acc)
    IN  IF ~first.threw \/ match = <<>> THEN first
        ELSE ParseStep(match, first.leads)

\* unnamed/part_005:96-99
handleLeadsGenerated(count) ==
    /\ sessionLeads' = sessionLeads + count
    /\ sessionQueries' = sessionQueries + 1

\* the call incrementUserStats(newLeads, newQueries), which is not awaited
incrementUserStats(newLeads, newQueries) ==
    Append(statsCalls, [leads |-> newLeads, queries |-> newQueries])

\* lines 513-520 of the component as it is after incrementUserStats was added
\* to it: what the run reports for the count of its leads
NotifyStats(count) ==
    IF count > 0
    THEN /\ handleLeadsGenerated(count)
         /\ statsCalls' = incrementUserStats(count, 1)
    ELSE /\ statsCalls' = incrementUserStats(0, 1)
         /\ UNCHANGED <<sessionLeads, sessionQueries>>

\* lines 118-138, 150-152: the stream of run r is over
Complete(r, run, acc) ==
    /\ generatedLeads' = ParseLeads(acc, generatedLeads).leads
    /\ NotifyStats(ParseLeads(acc, generatedLeads).count)
    /\ processingProgress' = ProgressDone * ProgressDivisor
    /\ agentStatus' = "complete"
    /\ intervals' = ClearedIntervals
    /\ runs' = [runs EXCEPT ![r] = Finished(run, "complete")]
    /\ UNCHANGED <<searchQuery, intentData, searchResults, searchSummary,
                   processingTime, errorMessage, timerRef, keyVars, probe>>

\* lines 103-109: the second pause is over; structureLeadsStream is called
Wait2Elapsed(r) ==
    /\ runs[r].pc = "wait2"
    /\ agentStatus' = "processing"
    /\ runs' = [runs EXCEPT ![r].pc = "stream_init", ![r].structCalled = TRUE,
                            ![r].pauses = Append(@, wait(ThrottleMs))]
    /\ UNCHANGED <<searchQuery, intentData, searchResults, searchSummary,
                   generatedLeads, processingTime, processingProgress,
                   errorMessage, timerRef, intervals, appVars, keyVars, probe>>

\* geminiService.ts:591-616: the generator returns at once on a text it skips;
\* otherwise the start of the stream settles
StreamInitSettles(r, script) ==
    /\ runs[r].pc = "stream_init"
    /\ IF SkipStructuring(runs[r].payload.text)
       THEN Complete(r, runs[r], <<>>)
       ELSE IF StreamInit(script).ok
       THEN /\ runs' = [runs EXCEPT ![r].pc = "streaming", ![r].payload = NoPayload]
            /\ UNCHANGED <<searchQuery, compVars, keyVars, probe>>
       ELSE /\ HandlerCatch(r, StreamInit(script).error)
            /\ runs' = [runs EXCEPT ![r] = Finished(@, "error")]

AccumulateFront(acc, chunk) == IF chunk = <<>> THEN acc ELSE chunk \o acc

AccumulateLast(acc, chunk) == IF chunk = <<>> THEN acc ELSE chunk

\* lines 112-113: if (chunk) accumulatedText += chunk
Accumulate(acc, chunk) == IF chunk = <<>> THEN acc ELSE acc \o chunk

\* geminiService.ts:618-620, KnowledgeBase.tsx:111-116: the provider sends a
\* chunk; one with an empty text is not yielded
StreamYields(r, chunk) ==
    /\ runs[r].pc = "streaming"
    /\ runs[r].nchunks < MaxChunks
    /\ IF chunk = <<>> THEN UNCHANGED vars
       ELSE /\ runs' = [runs EXCEPT ![r].acc = Accumulate(@, chunk),
                                    ![r].nchunks = @ + 1,
                                    ![r].chunks = Append(@, chunk)]
            /\ processingProgress' = ProgressAfter(processingProgress, chunk)
            /\ UNCHANGED <<searchQuery, agentStatus, intentData, searchResults,
                           searchSummary, generatedLeads, processingTime,
                           errorMessage, timerRef, intervals, appVars, keyVars, probe>>

\* geminiService.ts:618-624: reading the stream throws
StreamThrows(r, e) ==
    /\ runs[r].pc = "streaming"
    /\ HandlerCatch(r, StructuringError(e))
    /\ runs' = [runs EXCEPT ![r] = Finished(@, "error")]

\* the stream is exhausted
StreamEnds(r) ==
    /\ runs[r].pc = "streaming"
    /\ Complete(r, runs[r], runs[r].acc)

(***************************************************************************)
(* The program after the page has loaded.                                  *)
(***************************************************************************)
\* KnowledgeBase.tsx:19-28, unnamed/part_005:75-76
InitComponent ==
    /\ searchQuery = <<>>
    /\ agentStatus = "idle"
    /\ intentData = NullIntent
    /\ searchResults = <<>>
    /\ searchSummary = <<>>
    /\ generatedLeads = EmptyLeads
    /\ processingTime = 0
    /\ processingProgress = 0
    /\ errorMessage = <<>>
    /\ timerRef = 0
    /\ intervals = {}
    /\ sessionLeads = 0
    /\ sessionQueries = 0
    /\ statsCalls = <<>>

StorageKeys ==
    {"ai_provider", "deepseek_api_key", "deepseek_base_url", "gemini_api_key",
     "serp_api_key"}

DefaultProvider == "gemini"
DefaultBaseUrl == "https://api.deepseek.com"

\* url.replace(/\/$/, ''): one slash at the end is removed
StripSlash(url) ==
    CASE url = "/" -> ""
      [] url = "https://ds.example/" -> "https://ds.example"
      [] url = "https://ds.example//" -> "https://ds.example/"
      [] OTHER -> url

\* localStorage.getItem(k)?.replace(/\/$/, ''): undefined for a missing item
StoredStripSlash(x) == IF x = Absent THEN Absent ELSE StripSlash(x)

\* geminiService.ts:10-17: the module state as it is read from a storage
ModuleState(storage) ==
    [currentProvider |-> StoredOr(storage["ai_provider"], DefaultProvider),
     deepSeekApiKey |-> StoredOr(storage["deepseek_api_key"], ""),
     deepSeekBaseUrl |-> StoredOr(StoredStripSlash(storage["deepseek_base_url"]),
                                  DefaultBaseUrl),
     serpApiKey |-> StoredOr(storage["serp_api_key"], ""),
     geminiApiKey |-> StoredOr(storage["gemini_api_key"], StoredOr(EnvApiKey, ""))]

\* the module state as it is held now
HeldState ==
    [currentProvider |-> currentProvider, deepSeekApiKey |-> deepSeekApiKey,
     deepSeekBaseUrl |-> deepSeekBaseUrl, serpApiKey |-> serpApiKey,
     geminiApiKey |-> geminiApiKey]

\* geminiService.ts:10-17: the module state is read from what an earlier
\* session stored: a Gemini key, a SerpApi key, or nothing
InitKeys ==
    /\ localStorage \in {f \in [StorageKeys -> {Absent, UserGeminiKey, UserSerpKey}] :
                            /\ f["gemini_api_key"] \in {Absent, UserGeminiKey}
                            /\ f["serp_api_key"] \in {Absent, UserSerpKey}
                            /\ f["ai_provider"] = Absent
                            /\ f["deepseek_api_key"] = Absent
                            /\ f["deepseek_base_url"] = Absent}
    /\ currentProvider = ModuleState(localStorage).currentProvider
    /\ deepSeekApiKey = ModuleState(localStorage).deepSeekApiKey
    /\ deepSeekBaseUrl = ModuleState(localStorage).deepSeekBaseUrl
    /\ serpApiKey = ModuleState(localStorage).serpApiKey
    /\ geminiApiKey = ModuleState(localStorage).geminiApiKey

\* a direct call retryWithBackoff(fn, retries, delay) that has not run yet
Probe(script, retries, delay) ==
    [script |-> script, retries |-> retries, delay |-> delay, state |-> "pending",
     calls |-> 0, waits |-> <<>>, ok |-> TRUE, value |-> <<>>, error |-> NoErr]

NoProbe == Probe([fails |-> 0, transient |-> NoErr, final |-> Resolved(<<>>)], 0, 0)

Init ==
    /\ InitComponent
    /\ InitKeys
    /\ runs = <<>>
    /\ probe = NoProbe

StreamOpened == <<"stream">>

\* what the public CORS proxy does
SerpCorsOutcomes ==
    {Resolved(d) : d \in SerpDatas} \cup {Rejected(e) : e \in SerpCorsErrors}

Next ==
    \/ ClickFindLeads
    \/ PressEnter
    \/ ClickRetry
    \/ \E q \in Queries : SetSearchQuery(q)
    \/ \E id \in intervals, elapsed \in 0..MaxElapsed : TimerTick(id, elapsed)
    \/ \E r \in DOMAIN runs, script \in PipelineScripts(IntentTexts, DefaultRetries) :
          IntentSettles(r, script)
    \/ \E r \in DOMAIN runs : Wait1Elapsed(r)
    \/ \E r \in DOMAIN runs, proxy \in SerpDatas \cup {"fail"},
          cors \in SerpCorsOutcomes : SerpSettles(r, proxy, cors)
    \/ \E r \in DOMAIN runs, script \in PipelineScripts(GroundedResponses, GroundedRetries) :
          GroundedSettles(r, script)
    \/ \E r \in DOMAIN runs, script \in PipelineScripts(FallbackTexts, FallbackRetries) :
          FallbackSettles(r, script)
    \/ \E r \in DOMAIN runs : Wait2Elapsed(r)
    \/ \E r \in DOMAIN runs, script \in PipelineScripts({StreamOpened}, DefaultRetries) :
          StreamInitSettles(r, script)
    \/ \E r \in DOMAIN runs, chunk \in ChunkTexts : StreamYields(r, chunk)
    \/ \E r \in DOMAIN runs, e \in ProviderErrors : StreamThrows(r, e)
    \/ \E r \in DOMAIN runs : StreamEnds(r)

Spec == Init /\ [][Next]_vars

(***************************************************************************)
(* retryWithBackoff called directly, on every script of the operation.     *)
(***************************************************************************)
ProbeValue == <<"value">>

InitRetry ==
    /\ InitComponent
    /\ InitKeys
    /\ localStorage = [k \in StorageKeys |-> Absent]
    /\ runs = <<>>
    /\ probe \in {Probe(script, retries, delay) :
                    script \in Scripts({ProbeValue}, ProbeErrors, 0..MaxFails),
                    retries \in 0..DefaultRetries,
                    delay \in {GroundedDelay, DefaultDelay}}

\* the call runs to its end
RetryRuns ==
    /\ probe.state = "pending"
    /\ LET res == retryWithBackoff(probe.script, 1, probe.retries, probe.delay)
       IN  probe' = [probe EXCEPT !.state = "done", !.calls = res.calls,
                                  !.waits = res.waits, !.ok = res.ok,
                                  !.value = res.value, !.error = res.error]
    /\ UNCHANGED <<searchQuery, compVars, keyVars, runs>>

NextRetry == RetryRuns

SpecRetry == InitRetry /\ [][NextRetry]_vars

(***************************************************************************)
(* searchWithGrounding called directly, under every configuration of keys. *)
(***************************************************************************)
\* what is typed into the key inputs of Settings
GeminiKeyInputs == {"", " ", ShortGeminiKey, UserGeminiKey}
SerpKeyInputs == {"", UserSerpKey}

\* geminiService.ts:41-53
setGlobalGeminiKey(key) ==
    /\ IF TrimKey(key) # ""
       THEN /\ geminiApiKey' = TrimKey(key)
            /\ localStorage' = [localStorage EXCEPT !["gemini_api_key"] = TrimKey(key)]
       ELSE /\ geminiApiKey' = StoredOr(EnvApiKey, "")
            /\ localStorage' = [localStorage EXCEPT !["gemini_api_key"] = Absent]
    /\ UNCHANGED <<searchQuery, compVars, currentProvider, deepSeekApiKey,
                   deepSeekBaseUrl, serpApiKey, runs, probe>>

\* geminiService.ts:66-69
setGlobalSerpApiKey(key) ==
    /\ serpApiKey' = key
    /\ localStorage' = [localStorage EXCEPT !["serp_api_key"] = key]
    /\ UNCHANGED <<searchQuery, compVars, currentProvider, deepSeekApiKey,
                   deepSeekBaseUrl, geminiApiKey, runs, probe>>

\* geminiService.ts:517-534: a call, up to its first await
CallSearchWithGrounding ==
    /\ Len(runs) < MaxRuns
    /\ runs' = Append(runs,
                      [NewRun("search", IF SearchEntry = "serp" THEN "serp" ELSE "gemini")
                          EXCEPT !.strategy = SearchEntry, !.searchCalled = TRUE,
                                 !.searchCalls = EntryCalls(SearchEntry)])
    /\ UNCHANGED <<searchQuery, compVars, keyVars, probe>>

NextSearch ==
    \/ \E key \in GeminiKeyInputs : setGlobalGeminiKey(key)
    \/ \E key \in SerpKeyInputs : setGlobalSerpApiKey(key)
    \/ CallSearchWithGrounding
    \/ \E r \in DOMAIN runs, proxy \in SerpDatas \cup {"fail"},
          cors \in SerpCorsOutcomes : SerpSettles(r, proxy, cors)
    \/ \E r \in DOMAIN runs, script \in PipelineScripts(GroundedResponses, GroundedRetries) :
          GroundedSettles(r, script)
    \/ \E r \in DOMAIN runs, script \in PipelineScripts(FallbackTexts, FallbackRetries) :
          FallbackSettles(r, script)

SpecSearch == Init /\ [][NextSearch]_vars

(***************************************************************************)
(* The provider configuration: the setters called from Settings, and the   *)
(* page loaded again, which initialises the module state from the storage. *)
(***************************************************************************)
Providers == {"gemini", "deepseek"}
DeepSeekKeyInputs == {"", "sk-deepseek-1"}
BaseUrlInputs ==
    {"", " ", "/", "https://ds.example", "https://ds.example/", "https://ds.example//"}

\* geminiService.ts:35-39
setGlobalProvider(provider) ==
    /\ currentProvider' = provider
    /\ localStorage' = [localStorage EXCEPT !["ai_provider"] = provider]
    /\ UNCHANGED <<searchQuery, compVars, deepSeekApiKey, deepSeekBaseUrl,
                   geminiApiKey, serpApiKey, runs, probe>>

\* geminiService.ts:55-58
setGlobalDeepSeekKey(key) ==
    /\ deepSeekApiKey' = key
    /\ localStorage' = [localStorage EXCEPT !["deepseek_api_key"] = key]
    /\ UNCHANGED <<searchQuery, compVars, currentProvider, deepSeekBaseUrl,
                   geminiApiKey, serpApiKey, runs, probe>>

\* geminiService.ts:60-64
setGlobalDeepSeekBaseUrl(url) ==
    /\ deepSeekBaseUrl' = StripSlash(TrimKey(url))
    /\ localStorage' = [localStorage EXCEPT !["deepseek_base_url"] =
                                                StripSlash(TrimKey(url))]
    /\ UNCHANGED <<searchQuery, compVars, currentProvider, deepSeekApiKey,
                   geminiApiKey, serpApiKey, runs, probe>>

\* geminiService.ts:10-17: the page is loaded again
ReloadModule ==
    /\ currentProvider' = ModuleState(localStorage).currentProvider
    /\ deepSeekApiKey' = ModuleState(localStorage).deepSeekApiKey
    /\ deepSeekBaseUrl' = ModuleState(localStorage).deepSeekBaseUrl
    /\ serpApiKey' = ModuleState(localStorage).serpApiKey
    /\ geminiApiKey' = ModuleState(localStorage).geminiApiKey
    /\ UNCHANGED <<searchQuery, compVars, localStorage, runs, probe>>

NextConfig ==
    \/ \E provider \in Providers : setGlobalProvider(provider)
    \/ \E key \in GeminiKeyInputs : setGlobalGeminiKey(key)
    \/ \E key \in DeepSeekKeyInputs : setGlobalDeepSeekKey(key)
    \/ \E url \in BaseUrlInputs : setGlobalDeepSeekBaseUrl(url)
    \/ \E key \in SerpKeyInputs : setGlobalSerpApiKey(key)
    \/ ReloadModule

SpecConfig == Init /\ [][NextConfig]_vars

(***************************************************************************)
(* The consumption of a stream and the final parsing (KnowledgeBase.tsx    *)
(* lines 108-135) applied directly: to a payload as the provider sends it, *)
(* and to the same payload inside a markdown fence, each cut into chunks.  *)
(***************************************************************************)
MaxTokens == 4      \* tokens of a probed payload

PayloadTokens == {"[", "]", ",", LeadA, LeadFenced, "\n"}

\* the texts of the payload tokens, and the JSON values that are no array
PayloadTexts ==
    UNION {[1..n -> PayloadTokens] : n \in 0..MaxTokens}
        \cup {<<"null">>, <<"7">>, <<StringToken>>}

\* the line breaks a model puts inside the fence: none, or one on each side
FenceBreaks == {<<>>, <<"\n">>}

\* FENCEjson, the payload, FENCE
FenceWrap(text, break) == <<Fence, "json">> \o break \o text \o break \o <<Fence>>

\* the ways a stream of at most MaxChunks chunks cuts a text: the positions
\* after which a chunk ends
Cuts(text) ==
    {c \in SUBSET (1..(Len(text) - 1)) : Cardinality(c) < MaxChunks}

\* lines 108-116: the text accumulated from the chunks of text from position
\* from on
RECURSIVE Consume(_, _, _, _)
Consume(text, cuts, from, acc) ==
    IF from > Len(text) THEN acc
    ELSE LET ends == {c \in cuts : c >= from} \cup {Len(text)}
             to == CHOOSE c \in ends : \A d \in ends : c <= d
         IN  Consume(text, cuts, to + 1, Accumulate(acc, SubSeq(text, from, to)))

NotStreamed ==
    [state |-> "pending", acc |-> <<>>,
     out |-> [threw |-> FALSE, leads |-> EmptyLeads, count |-> 0]]

\* a payload, bare and fenced, neither streamed yet
ParseProbe(text, break) ==
    [text |-> text, wrapped |-> FenceWrap(text, break),
     bare |-> NotStreamed, fenced |-> NotStreamed]

InitParse ==
    /\ InitComponent
    /\ InitKeys
    /\ localStorage = [k \in StorageKeys |-> Absent]
    /\ runs = <<>>
    /\ probe \in {ParseProbe(text, break) : text \in PayloadTexts, break \in FenceBreaks}

\* lines 108-135 on a stream of the chunks of text
Streamed(text, cuts) ==
    [state |-> "done", acc |-> Consume(text, cuts, 1, <<>>),
     out |-> ParseLeads(Consume(text, cuts, 1, <<>>), EmptyLeads)]

StreamBare(cuts) ==
    /\ probe.bare.state = "pending"
    /\ probe' = [probe EXCEPT !.bare = Streamed(probe.text, cuts)]
    /\ UNCHANGED <<searchQuery, compVars, keyVars, runs>>

StreamFenced(cuts) ==
    /\ probe.fenced.state = "pending"
    /\ probe' = [probe EXCEPT !.fenced = Streamed(probe.wrapped, cuts)]
    /\ UNCHANGED <<searchQuery, compVars, keyVars, runs>>

NextParse ==
    \/ \E cuts \in Cuts(probe.text) : StreamBare(cuts)
    \/ \E cuts \in Cuts(probe.wrapped) : StreamFenced(cuts)

SpecParse == InitParse /\ [][NextParse]_vars

(***************************************************************************)
(* The provider calls of the pipeline, each made directly as its call site *)
(* makes it, on every script of the provider.                              *)
(***************************************************************************)
\* a provider call made outside retryWithBackoff: the fetch of callSerpApi
\* (geminiService.ts:128) and the read of a chunk (geminiService.ts:618)
CalledOnce(script) ==
    [ok |-> FnOutcome(script, 1).ok, value |-> FnOutcome(script, 1).value,
     error |-> FnOutcome(script, 1).error, calls |-> 1, waits |-> <<>>]

\* the provider call of a site: lines 501, 521, 539-545, 564-570, 612, 618
SiteCall(site, script) ==
    CASE site \in {"intent", "stream_init"} ->
            retryWithBackoff(script, 1, DefaultRetries, DefaultDelay)
      [] site = "grounded" ->
            retryWithBackoff(script, 1, GroundedRetries, GroundedDelay)
      [] site = "fallback" ->
            retryWithBackoff(script, 1, FallbackRetries, FallbackDelay)
      [] OTHER -> CalledOnce(script)

\* what handleAgentSearch gets from the stage of the call: whether it is a
\* failure (a rejection, or a payload with error = true) and its message; a
\* failed grounded call is followed by the ungrounded one (line 558)
StageFailure(site, script) ==
    CASE site = "intent" ->
            [failed |-> ~extractAgentIntent(script).ok,
             message |-> extractAgentIntent(script).error.message]
      [] site = "serpapi" ->
            [failed |-> SerpStrategy("fail", FnOutcome(script, 1)).error,
             message |-> SerpStrategy("fail", FnOutcome(script, 1)).errorMessage]
      [] site = "grounded" -> [failed |-> FALSE, message |-> <<>>]
      [] site = "fallback" ->
            [failed |-> FallbackAttempt(script).error,
             message |-> FallbackAttempt(script).errorMessage]
      [] site = "stream_init" ->
            [failed |-> ~StreamInit(script).ok,
             message |-> StreamInit(script).error.message]
      [] OTHER ->
            [failed |-> ~FnOutcome(script, 1).ok,
             message |-> StructuringError(FnOutcome(script, 1).error).message]

\* lines 95-97, 140-149: the message the error panel shows for the failure of
\* the stage of a call: that of the payload for a search, that of the catch
\* for the others
ShownError(site, script) ==
    IF site \in {"serpapi", "fallback"}
    THEN OrElse(StageFailure(site, script).message, <<"Search Tool Failed.">>)
    ELSE CatchMessage(Err(StageFailure(site, script).message))

\* what the provider of a site answers and fails with
SiteScripts(site) ==
    CASE site = "intent" -> Scripts(IntentTexts, ProbeErrors, 0..MaxFails)
      [] site = "serpapi" -> Scripts(SerpDatas, SerpCorsErrors, 0..MaxFails)
      [] site = "grounded" -> Scripts(GroundedResponses, ProbeErrors, 0..MaxFails)
      [] site = "fallback" -> Scripts(FallbackTexts, ProbeErrors, 0..MaxFails)
      [] site = "stream_init" -> Scripts({StreamOpened}, ProbeErrors, 0..MaxFails)
      [] OTHER -> Scripts(ChunkTexts, ProbeErrors, 0..MaxFails)

InitCalls ==
    /\ InitComponent
    /\ InitKeys
    /\ geminiApiKey = UserGeminiKey
    /\ serpApiKey = UserSerpKey
    /\ runs = <<>>
    /\ \E site \in {"intent", "serpapi", "grounded", "fallback",
                      "stream_init", "stream_read"} :
          \E script \in SiteScripts(site) :
              probe = [site |-> site, script |-> script, state |-> "pending",
                       calls |-> 0, waits |-> <<>>, failed |-> FALSE,
                       message |-> <<>>, cause |-> NoErr, shown |-> <<>>,
                       tip |-> ""]

\* the call runs to its end and its stage settles
CallRuns ==
    /\ probe.state = "pending"
    /\ probe' = [probe EXCEPT !.state = "done",
                              !.calls = SiteCall(probe.site, probe.script).calls,
                              !.waits = SiteCall(probe.site, probe.script).waits,
                              !.failed = StageFailure(probe.site, probe.script).failed,
                              !.message = StageFailure(probe.site, probe.script).message,
                              !.cause = SiteCall(probe.site, probe.script).error,
                              !.shown = ShownError(probe.site, probe.script),
                              !.tip = ErrorTip(ShownError(probe.site, probe.script))]
    /\ UNCHANGED <<searchQuery, compVars, keyVars, runs>>

SpecCalls == InitCalls /\ [][CallRuns]_vars

(***************************************************************************)
(* handleExportCsv (KnowledgeBase.tsx:30-58) called on a lead list.  Here  *)
(* a text is a sequence of characters; Quote stands for the double quote   *)
(* and Bom for the byte-order mark.                                        *)
(***************************************************************************)
MaxFieldLen == 2    \* characters of a field of a probed lead
MaxLeads == 2       \* leads of a probed list

Quote == "<quote>"
Bom == "<bom>"
CsvChars == {"a", ",", Quote, "\n"}

FieldTexts == UNION {[1..n -> CsvChars] : n \in 0..MaxFieldLen}

\* the leads probed: the first of a list has any text next to any text of at
\* most one character in its fields and an empty phone, the others are one of
\* two
FirstLeads ==
    {[lawFirm |-> a, contact |-> b, phone |-> <<>>, address |-> b, sourceUrl |-> a] :
        a \in FieldTexts, b \in {<<>>} \cup {<<c>> : c \in CsvChars}}

MoreLeads ==
    {[lawFirm |-> <<"a">>, contact |-> <<"-">>, phone |-> <<"-">>,
      address |-> <<"-">>, sourceUrl |-> <<"-">>],
     [lawFirm |-> <<Quote, "a", Quote>>, contact |-> <<",">>, phone |-> <<"\n">>,
      address |-> <<Quote>>, sourceUrl |-> <<>>]}

LeadLists ==
    {<<>>} \cup UNION {{<<first>> \o more : first \in FirstLeads,
                                            more \in [1..n -> MoreLeads]} :
                          n \in 0..(MaxLeads - 1)}

EscapeQuotesNone(text) == text

\* text.replace(/"/g, '""')
RECURSIVE EscapeQuotes(_)
EscapeQuotes(text) ==
    IF text = <<>> THEN <<>>
    ELSE (IF Head(text) = Quote THEN <<Quote, Quote>> ELSE <<Head(text)>>)
             \o EscapeQuotes(Tail(text))

\* lines 38-42: one field of a row
CsvField(value) == <<Quote>> \o EscapeQuotes(OrElse(value, <<>>)) \o <<Quote>>

\* array.join(separator) on texts
RECURSIVE Join(_, _)
Join(texts, separator) ==
    IF texts = <<>> THEN <<>>
    ELSE IF Len(texts) = 1 THEN texts[1]
    ELSE texts[1] \o <<separator>> \o Join(Tail(texts), separator)

\* line 33
CsvHeaders ==
    <<<<"Firm Name">>, <<"Contact Person">>, <<"Phone Number">>, <<"Address">>,
      <<"Source URL">>>>

\* lines 37-44
CsvRow(lead) ==
    Join(<<CsvField(lead.lawFirm), CsvField(lead.contact), CsvField(lead.phone),
           CsvField(lead.address), CsvField(lead.sourceUrl)>>, ",")

\* lines 30-47: whether a file is made, and its text
handleExportCsv(leads) ==
    IF Len(leads) = 0 THEN [exported |-> FALSE, csv |-> <<>>]
    ELSE [exported |-> TRUE,
          csv |-> <<Bom>> \o Join(<<Join(CsvHeaders, ",")>>
                                      \o [i \in 1..Len(leads) |-> CsvRow(leads[i])],
                                  "\n")]

InitCsv ==
    /\ InitComponent
    /\ InitKeys
    /\ localStorage = [k \in StorageKeys |-> Absent]
    /\ runs = <<>>
    /\ probe \in {[leads |-> leads, state |-> "pending", exported |-> FALSE,
                    csv |-> <<>>] : leads \in LeadLists}

\* a click on Export CSV
ExportCsv ==
    /\ probe.state = "pending"
    /\ probe' = [probe EXCEPT !.state = "done",
                              !.exported = handleExportCsv(probe.leads).exported,
                              !.csv = handleExportCsv(probe.leads).csv]
    /\ UNCHANGED <<searchQuery, compVars, keyVars, runs>>

SpecCsv == InitCsv /\ [][ExportCsv]_vars

(***************************************************************************)
(* incrementUserStats (services/weweRssService.ts:329-361) called for one  *)
(* user, each call suspended at its awaits.  probe holds the user_stats    *)
(* row of the user, the row as it was at first, and the calls.  A column   *)
(* is <<n>>, or <<>> for NULL.                                             *)
(***************************************************************************)
MaxStatsCalls == 2      \* incrementUserStats calls explored

\* (newLeads, newQueries) of the calls of lines 516 and 519
StatsDeltas == {<<0, 1>>, <<1, 1>>, <<2, 1>>}

\* README.md:103-108: user_id is the primary key, the counters may be NULL
NoRow == [exists |-> FALSE, leads_generated |-> <<>>, queries_count |-> <<>>]

StatsRow(leads, queries) ==
    [exists |-> TRUE, leads_generated |-> leads, queries_count |-> queries]

StatsColumns == {<<>>, <<0>>, <<1>>}

\* column || 0
OrZero(column) == IF column = <<>> THEN 0 ELSE column[1]

InitStats ==
    /\ InitComponent
    /\ InitKeys
    /\ localStorage = [k \in StorageKeys |-> Absent]
    /\ runs = <<>>
    /\ \E user \in BOOLEAN :
          \E row \in {NoRow} \cup {StatsRow(l, q) : l \in StatsColumns, q \in StatsColumns} :
              probe = [user |-> user, row |-> row, first |-> row, calls |-> <<>>]

\* line 329-330: a call, up to the await of getUser
CallIncrementUserStats(newLeads, newQueries) ==
    /\ Len(probe.calls) < MaxStatsCalls
    /\ probe' = [probe EXCEPT !.calls =
                    Append(@, [newLeads |-> newLeads, newQueries |-> newQueries,
                               pc |-> "getUser", current |-> NoRow])]
    /\ UNCHANGED <<searchQuery, compVars, keyVars, runs>>

\* lines 330-342: getUser has settled; without a user the call returns,
\* otherwise the row is asked for
GetUserSettles(c) ==
    /\ probe.calls[c].pc = "getUser"
    /\ probe' = [probe EXCEPT !.calls[c].pc = IF probe.user THEN "select" ELSE "done"]
    /\ UNCHANGED <<searchQuery, compVars, keyVars, runs>>

\* lines 338-344: the select is answered with the row as it is now, or with
\* no data when there is none
SelectSettles(c) ==
    /\ probe.calls[c].pc = "select"
    /\ probe' = [probe EXCEPT !.calls[c].pc = "write", !.calls[c].current = probe.row]
    /\ UNCHANGED <<searchQuery, compVars, keyVars, runs>>

\* lines 348-350: the counters written by the update, from the row read
Incremented(call) ==
    StatsRow(<<OrZero(call.current.leads_generated) + call.newLeads>>,
             <<OrZero(call.current.queries_count) + call.newQueries>>)

\* lines 344-360: the update of the row read, or the insert of a first row,
\* which the primary key rejects when there is one by now
WriteSettles(c) ==
    /\ probe.calls[c].pc = "write"
    /\ probe' = [probe EXCEPT
                    !.calls[c].pc = "done",
                    !.row = IF probe.calls[c].current.exists
                            THEN Incremented(probe.calls[c])
                            ELSE IF probe.row.exists THEN probe.row
                            ELSE StatsRow(<<probe.calls[c].newLeads>>,
                                          <<probe.calls[c].newQueries>>)]
    /\ UNCHANGED <<searchQuery, compVars, keyVars, runs>>

NextStats ==
    \/ \E d \in StatsDeltas : CallIncrementUserStats(d[1], d[2])
    \/ \E c \in DOMAIN probe.calls : GetUserSettles(c)
    \/ \E c \in DOMAIN probe.calls : SelectSettles(c)
    \/ \E c \in DOMAIN probe.calls : WriteSettles(c)

SpecStats == InitStats /\ [][NextStats]_vars

(***************************************************************************)
(* Properties.                                                             *)
(***************************************************************************)
Terminal == {"complete", "error"}
Active == {"identifying", "searching", "processing"}

HandlerRuns == {r \in DOMAIN runs : runs[r].caller = "handler"}

\* run r settles in this step
Settles(r) == runs[r].pc # "done" /\ runs'[r].pc = "done"

\* a run is started in this step
RunStarts == Len(runs') > Len(runs)

\* C1: the step in which a run of handleAgentSearch settles leaves the status
\* at complete or error, and whenever every started run has settled the status
\* is complete or error, never identifying, searching or processing.
C1_RunEndsTerminal ==
    [][/\ \A r \in HandlerRuns : Settles(r) => agentStatus' \in Terminal
       /\ (HandlerRuns # {} /\ InFlight = {})' => agentStatus' \in Terminal]_vars

\* a run that failed and a later one that completed have both settled
C1_Witness ==
    /\ Len(runs) = 2
    /\ InFlight = {}
    /\ runs[1].outcome = "error"
    /\ runs[2].outcome = "complete"
    /\ agentStatus = "complete"

\* C2: when searchWithGrounding hands a run a payload with error = true, the
\* run has not called structureLeadsStream and ends there, the status is error
\* and the lead list is empty.
C2_SearchErrorLeavesNoLeads ==
    [][\A r \in HandlerRuns :
          (Settles(r) /\ runs'[r].outcome = "search_error")
              => /\ ~runs[r].structCalled
                 /\ agentStatus' = "error"
                 /\ generatedLeads' = EmptyLeads]_vars

\* a run has ended on an error payload of the search
C2_Witness ==
    \E r \in HandlerRuns : runs[r].outcome = "search_error" /\ agentStatus = "error"

\* C3: at most one run of handleAgentSearch is in flight.
C3_OneRunInFlight == Cardinality(InFlight) <= 1

\* C4: when the status is complete or error and no run is in flight, no
\* interval timer is still running.
C4_NoTimerLeft ==
    (agentStatus \in Terminal /\ InFlight = {}) => intervals = {}

\* a run has settled and its interval is cleared
C4_Witness ==
    /\ Len(runs) = 1
    /\ runs[1].outcome = "complete"
    /\ timerRef = 1
    /\ intervals = {}

StatusSteps ==
    {<<"idle", "identifying">>, <<"identifying", "searching">>,
     <<"searching", "processing">>, <<"processing", "complete">>,
     <<"identifying", "error">>, <<"searching", "error">>,
     <<"processing", "error">>}

\* C5: the status changes only one step forward along idle, identifying,
\* searching, processing, complete, or to error from identifying, searching or
\* processing; complete and error are left only by a newly started run, for
\* identifying.
C5_StatusForward ==
    [][/\ (agentStatus' # agentStatus /\ agentStatus \notin Terminal)
              => <<agentStatus, agentStatus'>> \in StatusSteps
       /\ (agentStatus' # agentStatus /\ agentStatus \in Terminal)
              => (RunStarts /\ agentStatus' = "identifying")]_vars

SearchPcs == {"serp", "gemini", "fallback"}
StreamPcs == {"stream_init", "streaming"}

\* the stage calls of a run in flight are in order
StagesInOrder(run) ==
    /\ run.pc = "intent" => (~run.intentOk /\ ~run.searchCalled /\ ~run.structCalled)
    /\ run.searchCalled => run.intentOk
    /\ run.pc \in SearchPcs =>
          (run.searchCalled /\ run.searchOutcome = "none" /\ ~run.structCalled)
    /\ run.structCalled => (run.searchCalled /\ run.searchOutcome = "ok")
    /\ run.pc \in StreamPcs => run.structCalled

\* C6: in a run searchWithGrounding is called only after extractAgentIntent has
\* resolved and structureLeadsStream only after searchWithGrounding has
\* returned without error; while one stage call is pending no other is; a run
\* whose stage failed has settled and makes no further call.
C6_StageOrder ==
    [][\A r \in HandlerRuns :
          /\ runs[r].pc = "done" => runs'[r] = runs[r]
          /\ runs'[r].pc # "done" => StagesInOrder(runs'[r])
          /\ (~runs[r].searchCalled /\ runs'[r].searchCalled)
                => (runs[r].pc = "wait1" /\ runs[r].intentOk)
          /\ (~runs[r].structCalled /\ runs'[r].structCalled)
                => (runs[r].pc = "wait2" /\ runs[r].searchOutcome = "ok")
          /\ runs'[r].pc \in SearchPcs => runs[r].pc \in {"wait1"} \cup SearchPcs
          /\ runs'[r].pc \in StreamPcs => runs[r].pc \in {"wait2"} \cup StreamPcs]_vars

\* a run is reading the stream after an intent and a search that succeeded,
\* next to a run that failed
C6_Witness ==
    /\ Len(runs) = 2
    /\ runs[1].outcome = "error"
    /\ runs[2].pc = "streaming"
    /\ runs[2].intentOk /\ runs[2].searchOutcome = "ok" /\ runs[2].structCalled

\* C7: the step that starts a run leaves the intent null, the links, the
\* summary and the lead list empty, the elapsed seconds and the progress 0 and
\* the error message empty, with the new run at its intent call.
C7_StartResets ==
    [][RunStarts =>
          /\ agentStatus' = "identifying"
          /\ intentData' = NullIntent
          /\ searchResults' = <<>>
          /\ searchSummary' = <<>>
          /\ generatedLeads' = EmptyLeads
          /\ processingTime' = 0
          /\ processingProgress' = 0
          /\ errorMessage' = <<>>
          /\ runs'[Len(runs')] = NewRun("handler", "intent")]_vars

\* a run has just started after one that left leads, links and a summary
C7_Witness ==
    /\ Len(runs) = 2
    /\ runs[1].outcome = "complete"
    /\ sessionLeads > 0
    /\ runs[2].pc = "intent"
    /\ agentStatus = "identifying"
    /\ generatedLeads = EmptyLeads
    /\ searchSummary = <<>>

\* the markers of a rate limit and of an overload, as the claim lists them
RetryMarkers == {"429", "resource exhausted", "quota exceeded", "503", "overloaded"}

MatchesMarker(e) ==
    \E m \in RetryMarkers : Includes(ToLowerCase(OrElse(e.message, e.json)), m)

\* the retry counter when the i-th invocation of the probed call fails
BudgetAt(i) == probe.retries - (i - 1)

\* C8: a call of retryWithBackoff invokes the operation again only after an
\* error that matches a rate-limit or overload marker with the retry counter
\* above 0, waiting once before each new invocation; it ends with the result
\* of its last invocation, and an error it throws is the one that invocation
\* threw, either not matching a marker or met with the counter at 0; so an
\* error that matches no marker is thrown after one invocation and no wait.
C8_RetryOnlyOnMarker ==
    probe.state = "done" =>
        /\ probe.calls >= 1
        /\ Len(probe.waits) = probe.calls - 1
        /\ \A i \in 1..(probe.calls - 1) :
              /\ ~FnOutcome(probe.script, i).ok
              /\ MatchesMarker(FnOutcome(probe.script, i).error)
              /\ BudgetAt(i) > 0
        /\ LET last == FnOutcome(probe.script, probe.calls)
           IN  IF last.ok THEN probe.ok /\ probe.value = last.value
               ELSE /\ ~probe.ok
                    /\ probe.error = last.error
                    /\ ~(MatchesMarker(last.error) /\ BudgetAt(probe.calls) > 0)
        /\ (~FnOutcome(probe.script, 1).ok /\ ~MatchesMarker(FnOutcome(probe.script, 1).error))
              => (probe.calls = 1 /\ probe.waits = <<>> /\ ~probe.ok)

\* two overload errors were retried, then an error matching no marker was
\* thrown with budget left
C8_Witness ==
    /\ probe.state = "done"
    /\ probe.retries = DefaultRetries
    /\ probe.script.fails = 2
    /\ probe.script.transient = Err503
    /\ probe.script.final = Rejected(Err403)
    /\ probe.calls = 3
    /\ ~probe.ok
    /\ probe.error = Err403

\* C9: the i-th wait of a call of retryWithBackoff started with delay d is
\* d * 2^(i-1): each wait is double the one before.
C9_DelaysDouble ==
    probe.state = "done" =>
        \A i \in 1..Len(probe.waits) : probe.waits[i] = probe.delay * 2^(i - 1)

\* three retries from 2000 ms, as the grounded search call asks for
C9_Witness ==
    /\ probe.state = "done"
    /\ probe.retries = GroundedRetries
    /\ probe.delay = GroundedDelay
    /\ probe.waits = <<2000, 4000, 8000>>

\* C10: no call of searchWithGrounding rejects: each one that has settled
\* returned a payload.
C10_SearchNeverRejects ==
    \A r \in DOMAIN runs :
        (runs[r].caller = "search" /\ runs[r].pc = "done")
            => (runs[r].outcome = "returned" /\ runs[r].searchOutcome \in {"ok", "error"})

\* the search strategies the keys make available
AvailableStrategies ==
    (IF serpApiKey # "" THEN {"serpapi"} ELSE {})
        \cup (IF geminiApiKey # "" THEN {"grounded", "fallback"} ELSE {})

\* the strategies a search has attempted
Attempted(run) == {run.searchCalls[i].to : i \in DOMAIN run.searchCalls}

\* C11: a run ends on an error payload of searchWithGrounding only when the
\* search has attempted every strategy the keys make available: the SerpApi
\* call when a SerpApi key is set, the grounded and the ungrounded Gemini call
\* when a Gemini key is set.
C11_ErrorAfterAllStrategies ==
    [][\A r \in HandlerRuns :
          (Settles(r) /\ runs'[r].outcome = "search_error")
              => AvailableStrategies \subseteq Attempted(runs[r])]_vars

\* C12: while a search is pending, with a SerpApi key set its only provider
\* call is the SerpApi call; with none set it makes no SerpApi call, its first
\* call is the grounded one, and the ungrounded call is its second, made after
\* the grounded call has failed.
C12_StrategyPriority ==
    \A r \in DOMAIN runs :
        /\ runs[r].pc \in SearchPcs =>
              IF serpApiKey # ""
              THEN /\ runs[r].pc = "serp"
                   /\ runs[r].searchCalls = <<CallTo("serpapi", "pending")>>
              ELSE /\ runs[r].pc \in {"gemini", "fallback"}
                   /\ \A i \in DOMAIN runs[r].searchCalls :
                         /\ runs[r].searchCalls[i].to # "serpapi"
                         /\ i = 1 => runs[r].searchCalls[i].to = "grounded"
                         /\ runs[r].searchCalls[i].to = "fallback" =>
                               /\ i = 2
                               /\ runs[r].searchCalls[1] = CallTo("grounded", "failed")
                   /\ runs[r].pc = "fallback" =>
                         runs[r].searchCalls[Len(runs[r].searchCalls)].to = "fallback"
        /\ runs[r].strategy # "none" =>
              (runs[r].strategy = "serp" <=> serpApiKey # "")

\* without a SerpApi key, a search awaits the ungrounded call after the
\* grounded one has failed
C12_Witness ==
    /\ serpApiKey = ""
    /\ \E r \in HandlerRuns :
          /\ runs[r].pc = "fallback"
          /\ runs[r].searchCalls = FallbackCalls

\* the text a run has accumulated when its stream ends
StreamedText(run) == IF run.pc = "streaming" THEN run.acc ELSE <<>>

\* the strict parse of the text fails, and the text has no bracket-delimited
\* substring or the parse of that substring fails too
BothParsesFail(acc) ==
    /\ Trim(StripFences(acc)) # <<>>
    /\ ~JsonParse(Trim(StripFences(acc))).ok
    /\ RegexArray(acc) = <<>> \/ ~JsonParse(RegexArray(acc)).ok

\* C13: the step in which the stream of a run ends leaves the status at
\* complete and the progress at 100, and when neither the strict parse of the
\* accumulated text nor the parse of its bracket-delimited substring succeeds
\* it leaves the lead list empty.
C13_ParseFailureCompletes ==
    [][\A r \in HandlerRuns :
          (Settles(r) /\ runs'[r].outcome = "complete")
              => /\ agentStatus' = "complete"
                 /\ processingProgress' = ProgressDone * ProgressDivisor
                 /\ BothParsesFail(StreamedText(runs[r]))
                       => generatedLeads' = EmptyLeads]_vars

\* JSON.parse gives an array of leads for the text
ParsesAsLeadArray(text) ==
    /\ JsonParse(text).ok
    /\ JsonParse(text).val.kind = "array"
    /\ \A i \in DOMAIN JsonParse(text).val.items :
          JsonParse(text).val.items[i] \in ObjectTokens

\* C14: for a payload that parses as a JSON array of leads, the lead list and
\* the lead count obtained from the payload inside a markdown fence are those
\* obtained from the bare payload, one lead for each element of the array,
\* however the two texts were cut into chunks.
C14_FenceEquivalence ==
    (/\ probe.bare.state = "done"
     /\ probe.fenced.state = "done"
     /\ ParsesAsLeadArray(probe.text))
        => /\ probe.fenced.out = probe.bare.out
           /\ ~probe.bare.out.threw
           /\ probe.bare.out.leads.kind = "array"
           /\ Len(probe.bare.out.leads.items) = Len(JsonParse(probe.text).val.items)

\* a one-lead payload between line breaks, fenced with line breaks, has given
\* its lead both ways
C14_Witness ==
    /\ probe.text = <<"[", LeadA, "]", "\n">>
    /\ probe.wrapped = <<Fence, "json", "\n", "[", LeadA, "]", "\n", "\n", Fence>>
    /\ probe.bare.state = "done"
    /\ probe.fenced.state = "done"
    /\ probe.fenced.out.leads = JsArray(<<LeadA>>)
    /\ probe.fenced.out.count = 1

\* C15: when the stage of a provider call hands handleAgentSearch a failure
\* whose message carries a rate-limit or overload marker, the call was invoked
\* again after a wait at least once before: the error of a first invocation
\* is not what the orchestrator gets.
C15_TransientAbsorbed ==
    (/\ probe.state = "done"
     /\ probe.failed
     /\ \E m \in RetryMarkers : Includes(ToLowerCase(probe.message), m))
        => /\ probe.calls >= 2
           /\ Len(probe.waits) = probe.calls - 1

\* C16: with no Gemini key no run is started: the status is never identifying,
\* no interval timer runs and none was ever created.
C16_NoStartWithoutKey ==
    geminiApiKey = "" =>
        /\ agentStatus # "identifying"
        /\ intervals = {}
        /\ timerRef = 0
        /\ runs = <<>>

\* what JSON.parse gives for the responses of the intent call
ParsedIntents == {ParseIntent(text).val : text \in {t \in IntentTexts : ParseIntent(t).ok}}

\* C17: the step in which extractAgentIntent settles for a run either ends the
\* run, with the status error, a non-empty error message and no call of
\* searchWithGrounding (the status was identifying till then when the run is
\* the only one started), or hands the run what JSON.parse gave for the
\* response, never another intent.
C17_IntentFailureHalts ==
    [][\A r \in HandlerRuns :
          (runs[r].pc = "intent" /\ runs'[r].pc # "intent") =>
              IF runs'[r].pc = "done"
              THEN /\ runs'[r].outcome = "error"
                   /\ agentStatus' = "error"
                   /\ errorMessage' # <<>>
                   /\ ~runs[r].searchCalled
                   /\ Len(runs) = 1 => agentStatus = "identifying"
              ELSE /\ runs'[r].pc = "wait1"
                   /\ runs'[r].intent \in ParsedIntents
                   /\ intentData' = runs'[r].intent
                   /\ ~runs'[r].searchCalled
                   /\ agentStatus' = agentStatus]_vars

\* a run has ended on a response of the intent call that is no JSON
C17_Witness ==
    /\ Len(runs) = 1
    /\ runs[1].outcome = "error"
    /\ agentStatus = "error"
    /\ errorMessage = <<"Intent Error: ", "Unexpected token in JSON">>
    /\ searchSummary = <<>>

\* C18: while a run is reading its stream the progress is at most 98; the
\* progress becomes 100 only in the step in which the stream of a run ends and
\* the run completes; and but for the reset at the start of a run the progress
\* never decreases.
C18_ProgressClamped ==
    [][/\ (\E r \in HandlerRuns : runs'[r].pc = "streaming")
             => processingProgress' <= ProgressCap * ProgressDivisor
       /\ (processingProgress' = ProgressDone * ProgressDivisor
               /\ processingProgress # ProgressDone * ProgressDivisor)
             => \E r \in HandlerRuns : Settles(r) /\ runs'[r].outcome = "complete"
       /\ ~RunStarts => processingProgress' >= processingProgress]_vars

\* C19: a run whose searchWithGrounding call is pending or has returned has
\* waited out one pause of 1500 ms since extractAgentIntent resolved, and a run
\* that has called structureLeadsStream a second one since the search returned
\* a payload without error; before its first pause is over a run has called
\* neither.
C19_ThrottlePauses ==
    \A r \in InFlight :
        /\ runs[r].pc \in {"intent", "wait1"} =>
              (runs[r].pauses = <<>> /\ ~runs[r].searchCalled /\ ~runs[r].structCalled)
        /\ runs[r].pc \in SearchPcs \cup {"wait2"} =>
              /\ runs[r].pauses = <<ThrottleMs>>
              /\ runs[r].intentOk
              /\ runs[r].searchCalled
              /\ ~runs[r].structCalled
        /\ runs[r].pc \in StreamPcs =>
              /\ runs[r].pauses = <<ThrottleMs, ThrottleMs>>
              /\ runs[r].searchOutcome = "ok"
              /\ runs[r].structCalled

\* a run reads its stream after both pauses while a later run awaits its
\* search after one
C19_Witness ==
    /\ Len(runs) = 2
    /\ runs[1].pc = "streaming"
    /\ runs[1].pauses = <<ThrottleMs, ThrottleMs>>
    /\ runs[2].pc \in SearchPcs
    /\ runs[2].pauses = <<ThrottleMs>>

\* A reader of comma-separated values (RFC 4180): from position i of text, in
\* a quoted section or not, with the field and the row read so far.
RECURSIVE CsvScan(_, _, _, _, _, _)
CsvScan(text, i, quoted, field, row, rows) ==
    IF i > Len(text) THEN Append(rows, Append(row, field))
    ELSE IF quoted
    THEN IF text[i] # Quote
         THEN CsvScan(text, i + 1, TRUE, Append(field, text[i]), row, rows)
         ELSE IF i < Len(text) /\ text[i + 1] = Quote
         THEN CsvScan(text, i + 2, TRUE, Append(field, Quote), row, rows)
         ELSE CsvScan(text, i + 1, FALSE, field, row, rows)
    ELSE IF text[i] = Quote THEN CsvScan(text, i + 1, TRUE, field, row, rows)
    ELSE IF text[i] = "," THEN CsvScan(text, i + 1, FALSE, <<>>, Append(row, field), rows)
    ELSE IF text[i] = "\n"
    THEN CsvScan(text, i + 1, FALSE, <<>>, <<>>, Append(rows, Append(row, field)))
    ELSE CsvScan(text, i + 1, FALSE, Append(field, text[i]), row, rows)

\* the rows a reader gets from a file, the mark at its start skipped
CsvRead(text) ==
    CsvScan(text, IF text # <<>> /\ text[1] = Bom THEN 2 ELSE 1, FALSE, <<>>, <<>>, <<>>)

LeadFields(lead) ==
    <<lead.lawFirm, lead.contact, lead.phone, lead.address, lead.sourceUrl>>

\* C20: the file exported for a lead list reads back as the header row
\* followed by one row for each lead, in list order, whose five fields are the
\* lead's lawFirm, contact, phone, address and sourceUrl, whatever commas,
\* quotes and line breaks they hold; for an empty list no file is made.
C20_CsvRoundTrip ==
    probe.state = "done" =>
        IF probe.leads = <<>> THEN ~probe.exported
        ELSE /\ probe.exported
             /\ Len(CsvRead(probe.csv)) = Len(probe.leads) + 1
             /\ CsvRead(probe.csv)[1] = CsvHeaders
             /\ \A i \in 1..Len(probe.leads) :
                   CsvRead(probe.csv)[i + 1] = LeadFields(probe.leads[i])

\* a list of two leads was exported whose first holds a quote and a comma in
\* one field and a line break in another
C20_Witness ==
    /\ probe.state = "done"
    /\ probe.exported
    /\ Len(probe.leads) = 2
    /\ probe.leads[1].lawFirm = <<Quote, ",">>
    /\ probe.leads[1].contact = <<"\n">>
    /\ probe.leads[2].lawFirm = <<Quote, "a", Quote>>

\* the message of line 146 and the tip that goes with it
QuotaWording ==
    /\ probe.shown = <<"API Quota Exceeded. Using Key ending in ", getMaskedGeminiKey,
                       ". The search tool is heavily rate-limited even on paid tiers. Please try again in 1 minute.">>
    /\ probe.tip = "Tip: Google Search has strict rate limits. Try again in 30-60 seconds."

\* the message of the failure itself and the tip to check the configuration
GenericWording ==
    /\ probe.shown # <<>>
    /\ ~Includes(probe.shown, "Quota")
    /\ probe.tip = "Tip: Check your API Key in Settings."

\* C21: when the stage of a provider call fails, the error panel shows the
\* quota message and the tip to wait if retryWithBackoff classifies the error
\* the call ended with as a rate limit (429, resource exhausted, quota
\* exceeded), and the message of the failure with the tip to check the
\* configuration otherwise, for a thrown failure and for an error payload.
C21_QuotaWording ==
    (probe.state = "done" /\ probe.failed) =>
        IF IsRateLimit(RetryMsg(probe.cause)) THEN QuotaWording ELSE GenericWording

\* the number of elements of the array that the text of a stream holds, as
\* the whole of it or between its first and its last bracket; 0 when it holds
\* none
LeadsParsed(acc) ==
    LET strict == JsonParse(Trim(StripFences(acc)))
        loose == JsonParse(RegexArray(acc))
    IN  IF strict.ok /\ strict.val.kind = "array" THEN Len(strict.val.items)
        ELSE IF loose.ok /\ loose.val.kind = "array" THEN Len(loose.val.items)
        ELSE 0

\* C22: the step in which a run completes makes one incrementUserStats call
\* and adds to the session counters of the App, each with the number of leads
\* the run parsed and one query, also when it parsed none; the step in which a
\* run ends in error, and every other step, reports nothing.
C22_StatsOncePerComplete ==
    [][IF \E r \in HandlerRuns : Settles(r) /\ runs'[r].outcome = "complete"
       THEN \A r \in HandlerRuns :
               Settles(r) =>
                   LET n == LeadsParsed(StreamedText(runs[r]))
                   IN  /\ statsCalls' = Append(statsCalls, [leads |-> n, queries |-> 1])
                       /\ sessionLeads' = sessionLeads + n
                       /\ sessionQueries' = sessionQueries + 1
       ELSE UNCHANGED appVars]_vars

RECURSIVE Concat(_)
Concat(texts) == IF texts = <<>> THEN <<>> ELSE Head(texts) \o Concat(Tail(texts))

\* C24: while a run reads its stream, the text it has accumulated after the
\* k-th chunk is the concatenation of chunks 1..k in arrival order, and the
\* lead list the run leaves when the stream ends is the one parsed from the
\* concatenation of all the chunks the stream yielded.
C24_ChunksInOrder ==
    [][\A r \in HandlerRuns :
          /\ runs'[r].pc = "streaming" =>
                /\ Len(runs'[r].chunks) = runs'[r].nchunks
                /\ runs'[r].acc = Concat(runs'[r].chunks)
          /\ (runs[r].pc = "streaming" /\ Settles(r) /\ runs'[r].outcome = "complete")
                => generatedLeads' =
                       ParseLeads(Concat(runs[r].chunks), generatedLeads).leads]_vars

\* a run has accumulated two chunks in the order in which they arrived
C24_Witness ==
    \E r \in HandlerRuns :
        /\ runs[r].pc = "streaming"
        /\ runs[r].chunks = <<<<"[", LeadA>>, <<"]">>>>
        /\ runs[r].acc = <<"[", LeadA, "]">>

\* the direct calls of searchWithGrounding that have returned a payload
Returned ==
    {r \in DOMAIN runs : runs[r].caller = "search" /\ runs[r].outcome = "returned"}

\* C25: a payload without error that a search returns after its ungrounded
\* call has no links and a text that starts with the warning banner followed
\* by more text; and a search returns a text that starts with the banner only
\* after its grounded call has failed and its ungrounded call was made.
C25_FallbackMarked ==
    \A r \in Returned :
        /\ ("fallback" \in Attempted(runs[r]) /\ ~runs[r].payload.error) =>
              /\ runs[r].payload.links = <<>>
              /\ Len(runs[r].payload.text) >= 2
              /\ Head(runs[r].payload.text) = WarningBanner
        /\ (runs[r].payload.text # <<>> /\ Head(runs[r].payload.text) = WarningBanner) =>
              /\ runs[r].searchCalls = FallbackCalls
              /\ runs[r].strategy = "gemini"

\* a search has returned the suggestions of the ungrounded call under the
\* banner
C25_Witness ==
    \E r \in Returned :
        /\ runs[r].searchCalls = FallbackCalls
        /\ runs[r].payload =
              Payload(<<WarningBanner,
                        "Note: Live search is unavailable, these are general suggestions.">>,
                      <<>>)

\* the runs that hold a payload searchWithGrounding returned: a direct call
\* that has returned, a handler run between lines 95 and 109
HoldsPayload ==
    Returned \cup {r \in HandlerRuns : runs[r].pc \in {"wait2", "stream_init"}}

\* C26: a payload searchWithGrounding returned with error = true has an empty
\* text, no links and a non-empty errorMessage, and one without error has a
\* non-empty text; a run that is to call structureLeadsStream with the text of
\* its payload holds one without error, so a non-empty text.
C26_PayloadShape ==
    \A r \in HoldsPayload :
        /\ IF runs[r].payload.error
           THEN /\ runs[r].payload.text = <<>>
                /\ runs[r].payload.links = <<>>
                /\ runs[r].payload.errorMessage # <<>>
           ELSE runs[r].payload.text # <<>>
        /\ runs[r].caller = "handler" =>
              (~runs[r].payload.error /\ runs[r].payload.text # <<>>)

\* a search has returned an error payload after both Gemini calls failed, and
\* another the text of a grounded answer without links
C26_Witness ==
    /\ \E r \in Returned :
          /\ runs[r].payload.error
          /\ runs[r].payload.errorMessage =
                <<"Both Search and Fallback failed. Key: ", "...9f3K", ". Error: ",
                  "403 API key not valid">>
    /\ \E r \in Returned : runs[r].payload = Payload(GroundedText, <<>>)

\* what the handler has stored and counted for the two streams of the payload
ParseOutcomes ==
    (IF probe.bare.state = "done" THEN {probe.bare.out} ELSE {})
        \cup (IF probe.fenced.state = "done" THEN {probe.fenced.out} ELSE {})

\* C27: whatever the stream held, the value the handler has stored as the
\* lead list is an array, and the lead count it reports is a non-negative
\* integer.
C27_LeadsIsList ==
    \A out \in ParseOutcomes :
        /\ out.leads.kind = "array"
        /\ out.count \in Nat

\* C28: while the status is identifying, searching or error the lead list is
\* empty.
C28_NoLeadsUnlessProcessed ==
    agentStatus \in {"identifying", "searching", "error"} => generatedLeads = EmptyLeads

\* the sum of a field of the calls
RECURSIVE SumOf(_, _)
SumOf(calls, field) ==
    IF calls = <<>> THEN 0 ELSE Head(calls)[field] + SumOf(Tail(calls), field)

\* C29: once every incrementUserStats call made for a signed-in user has
\* completed, the row of the user holds the counters it had at first (0 for
\* none) plus the sums of the newLeads and of the newQueries of the calls.
C29_NoLostUpdate ==
    (/\ probe.user
     /\ probe.calls # <<>>
     /\ \A c \in DOMAIN probe.calls : probe.calls[c].pc = "done")
        => /\ probe.row.exists
           /\ probe.row.leads_generated =
                 <<OrZero(probe.first.leads_generated) + SumOf(probe.calls, "newLeads")>>
           /\ probe.row.queries_count =
                 <<OrZero(probe.first.queries_count) + SumOf(probe.calls, "newQueries")>>

\* C30: after any sequence of calls of the five setters, loading the page
\* again gives the module state that is held now: the same provider, keys and
\* base URL.
C30_ConfigSurvivesReload == ModuleState(localStorage) = HeldState

=============================================================================
